---- MODULE Spec2Model ----
(***************************************************************************)
(* Model of the basal-melt coupling code of BasalMeltCoupling:             *)
(*   src/code/BasalMelt.py              OceanData, BasalMelt               *)
(*   src/BasalMelt.py                   LevermannSectors, OceanData        *)
(*   src/func_data_variables_parameters.py   sel_mask, mask_sector,        *)
(*                                            sel_depth_bnds               *)
(*   src/AMRtools.py                    AMRfile, AMRfiles                  *)
(*                                                                         *)
(* The code is a set of functions called on in-memory arrays.  A behaviour *)
(* of the model is one call: op names the function, the argument variables *)
(* hold its inputs, and the action of that function computes its outputs   *)
(* (or the exception it raises, in raised) and moves pc from "call" to     *)
(* "done".  The variables of the functions that are not called stay idle.  *)
(* Arrays are sequences; Python's 0-based indices are kept in every index  *)
(* the code computes (lev_ind_top, lev_ind_bottom).                        *)
(*                                                                         *)
(* SpecLev, SpecBand, SpecMask and SpecMelt are the calls of one group of  *)
(* functions each; SpecTable is weighted_mean_df, SpecMeltTable is         *)
(* thetao2basalmelt, SpecScatter is map2amr and SpecAmr is the parallel    *)
(* file functions of AMRtools.py.  The loops of weighted_mean_df and       *)
(* map2amr take one step per turn, and the workers of AMRfiles.stats one   *)
(* step each.  Spec is all of them.                                        *)
(*                                                                         *)
(* Units: depths are integers; temperatures are in tenths of a degree;     *)
(* the quadratic constant ms is in thousandths.                            *)
(***************************************************************************)
EXTENDS Integers, Sequences, FiniteSets

VARIABLES
    op,              \* the function that is called
    pc,              \* "call" before the function has run, "done" after
    raised,          \* "" or the name of the exception the call raised
    \* ---- OceanData.lev_weighted_mean
    ds,              \* temperature of each level (the (time, lev) field at one time)
    loaded_lev_bnds, \* the level bounds of the dataset (ds_year.lev_bnds)
    lev_bnds,        \* the level-bounds array handed in: <<top, bottom>> per level
    top, bottom,     \* the depth band
    lev_ind_top,     \* index found by nearest_below, -1 while unset
    lev_ind_bottom,  \* index found by nearest_above, -1 while unset
    levs_weights,    \* clipped thickness of each sliced level
    levs_weighted_mean,  \* <<sum of weight*temperature, sum of weights>>
    \* ---- ShelfBase / select_depth_range / sel_depth_bnds
    key,             \* the sector argument: [type, name, num]
    ocean_slice,     \* the band returned, <<>> while there is none
    \* ---- sel_mask / mask_sector / LevermannSectors
    coord_names,     \* the names of the coordinates the dataset has
    lats, lons,      \* the latitude and the longitude axis of the grid
    sector,          \* the sector argument of mask_sector and sel_mask
    lat, lon,        \* the coordinate names handed to mask_sector
    coords,          \* the rectangle handed to create_mask
    mask,            \* the mask returned: cell -> BOOLEAN, <<>> while there is none
    masks,           \* the dict sector_masks returns, <<>> while there is none
    \* ---- BasalMelt
    gamma,           \* the melt-sensitivity coefficient of the BasalMelt object
    thetao,          \* the temperature argument, in tenths of a degree
    base,            \* the baseline argument, in tenths of a degree
    bm,              \* the melt quadBasalMelt returned
    dBM,             \* the anomaly BasalMeltAnomalies returned
    \* ---- weighted_mean_df / thetao2basalmelt
    todo,            \* the sectors the loop of weighted_mean_df has still to process
    df,              \* the table of sector columns: <<name, values>> per column
    df2,             \* the table of anomalies thetao2basalmelt returns
    \* ---- LevermannMask.map2amr
    bisicles_masks,  \* the dict OpenMasks returns: name -> grid of 0/1
    columns,         \* the column names of the table handed to map2amr
    row_index,       \* the number of rows iterrows has yielded
    row,             \* the row being mapped: column -> value, <<>> before the first
    new_mask,        \* the grid written for the row, <<>> while there is none
    \* ---- AMRfiles.stats / AMRfiles.lev0means
    files,           \* the files in the order get_files lists them
    num_jobs,        \* n_jobs of the Parallel call
    jobs,            \* per file, the state of the worker call on it
    table            \* the table returned, <<>> while there is none

levVars == <<ds, loaded_lev_bnds, lev_bnds, top, bottom, lev_ind_top, lev_ind_bottom,
             levs_weights, levs_weighted_mean>>

bandVars == <<key, ocean_slice>>

maskVars == <<coord_names, lats, lons, sector, lat, lon, coords, mask, masks>>

meltVars == <<gamma, thetao, base, bm, dBM>>

tableVars == <<todo, df, df2>>

scatterVars == <<bisicles_masks, columns, row_index, row, new_mask>>

amrVars == <<files, num_jobs, jobs, table>>

\* the variables of the table, scatter and AMR functions
restVars == <<tableVars, scatterVars, amrVars>>

vars == <<op, pc, raised, levVars, bandVars, maskVars, meltVars, restVars>>

----------------------------------------------------------------------------
(* Bounds of the model *)

MaxDepth == 5    \* level bounds and band limits range over 0..MaxDepth
MaxLev == 3      \* at most MaxLev vertical levels
MaxTemp == 1     \* level temperatures range over 0..MaxTemp
MaxKey == 1000   \* integer depth keys range over 0..MaxKey
GridSide == 2    \* the sampled grids have GridSide rows and GridSide columns
MaxAbsTemp == 30 \* temperatures range over -MaxAbsTemp..MaxAbsTemp tenths of a degree
MaxGamma == 2    \* gamma ranges over -1..MaxGamma
MaxSectors == 2  \* sector orders other than the class's own have up to MaxSectors sectors
MaxRows == 2     \* tables have up to MaxRows year rows
NCells == 2      \* the grids of map2amr have NCells cells
MaxFiles == 3    \* the directory holds up to MaxFiles plot files
MaxTime == 1     \* the time keys of the files range over 0..MaxTime
MaxJobs == 2     \* multiprocessing.cpu_count() ranges over 1..MaxJobs

----------------------------------------------------------------------------
(* Helpers *)

RECURSIVE SumSeq(_)
SumSeq(s) == IF s = <<>> THEN 0 ELSE Head(s) + SumSeq(Tail(s))

Abs(x) == IF x < 0 THEN 0 - x ELSE x

Unset == 0 - 1

----------------------------------------------------------------------------
(* OceanData.nearest_mask / nearest_above / nearest_below                   *)

\* masked_array.argmin(): the first index (0-based) holding the least unmasked
\* value; 0 when every entry is masked.
MaskedArgmin(data, hidden) ==
    LET open == {i \in 1..Len(data) : ~hidden[i]}
    IN  IF open = {} THEN 0
        ELSE (CHOOSE i \in open :
                 \A k \in open : data[i] < data[k] \/ (data[i] = data[k] /\ i <= k)) - 1

\* nearest_mask with np.ma.less in place of np.ma.less_equal
nearest_mask_less(diff) ==
    LET hidden == [i \in 1..Len(diff) |-> diff[i] < 0]
    IN  IF \A i \in 1..Len(diff) : hidden[i]
        THEN [none |-> TRUE, data |-> diff, mask |-> hidden]
        ELSE [none |-> FALSE, data |-> diff, mask |-> hidden]

\* nearest_mask without the early "return None"
nearest_mask_no_none(diff) ==
    [none |-> FALSE, data |-> diff, mask |-> [i \in 1..Len(diff) |-> diff[i] <= 0]]

\* nearest_mask: mask the entries <= 0; None when every entry is masked.
nearest_mask(diff) ==
    LET hidden == [i \in 1..Len(diff) |-> diff[i] <= 0]
    IN  IF \A i \in 1..Len(diff) : hidden[i]
        THEN [none |-> TRUE, data |-> diff, mask |-> hidden]
        ELSE [none |-> FALSE, data |-> diff, mask |-> hidden]

\* masked_diff.argmin() on the value nearest_mask returned: None has no argmin.
ArgminOf(masked_diff) ==
    IF masked_diff.none
    THEN [raised |-> "AttributeError", value |-> Unset]
    ELSE [raised |-> "", value |-> MaskedArgmin(masked_diff.data, masked_diff.mask)]

nearest_above(my_array, target) ==
    LET diff == [i \in 1..Len(my_array) |-> my_array[i] - target]
    IN  ArgminOf(nearest_mask(diff))

nearest_below(my_array, target) ==
    LET diff == [i \in 1..Len(my_array) |-> target - my_array[i]]
    IN  ArgminOf(nearest_mask(diff))

----------------------------------------------------------------------------
(* OceanData.lev_weighted_mean                                              *)

Column(bnds, c) == [i \in 1..Len(bnds) |-> bnds[i][c]]

\* Python slice a[i:j+1] of 0-based indices i, j
Slice(a, i, j) == SubSeq(a, i + 1, j + 1)

\* the clipping without its second line, lev_bnds_sel[lev_bnds_sel < top] = top
ClipValue_bottom_only(v, t, b) == IF v > b THEN b ELSE v

\* the clipping without its first line, lev_bnds_sel[lev_bnds_sel > bottom] = bottom
ClipValue_top_only(v, t, b) == IF v < t THEN t ELSE v

\* lev_bnds_sel[lev_bnds_sel > bottom] = bottom; lev_bnds_sel[lev_bnds_sel < top] = top
ClipValue(v, t, b) ==
    LET a == IF v > b THEN b ELSE v
    IN  IF a < t THEN t ELSE a

ClipBounds(sel, t, b) ==
    [k \in 1..Len(sel) |-> <<ClipValue(sel[k][1], t, b), ClipValue(sel[k][2], t, b)>>]

\* The whole function: the indices, the clipped slice written back into the
\* array it was given (the slice is a view), the weights and the weighted mean.
lev_weighted_mean(field, bnds, t, b) ==
    LET jb == nearest_above(Column(bnds, 2), b)
        it == nearest_below(Column(bnds, 1), t)
    IN  IF jb.raised # ""
        THEN [raised |-> jb.raised, lev_ind_top |-> Unset, lev_ind_bottom |-> Unset,
              lev_bnds |-> bnds, levs_weights |-> <<>>, mean |-> <<0, 0>>]
        ELSE IF it.raised # ""
        THEN [raised |-> it.raised, lev_ind_top |-> Unset, lev_ind_bottom |-> jb.value,
              lev_bnds |-> bnds, levs_weights |-> <<>>, mean |-> <<0, 0>>]
        ELSE
          LET i == it.value
              j == jb.value
              levs_slice == Slice(field, i, j)
              lev_bnds_sel == ClipBounds(Slice(bnds, i, j), t, b)
              w == [k \in 1..Len(lev_bnds_sel) |-> lev_bnds_sel[k][2] - lev_bnds_sel[k][1]]
              written == [n \in 1..Len(bnds) |->
                            IF n >= i + 1 /\ n <= j + 1 THEN lev_bnds_sel[n - i] ELSE bnds[n]]
          IN  [raised |-> "", lev_ind_top |-> i, lev_ind_bottom |-> j,
               lev_bnds |-> written, levs_weights |-> w,
               mean |-> <<SumSeq([k \in 1..Len(w) |-> w[k] * levs_slice[k]]), SumSeq(w)>>]

----------------------------------------------------------------------------
(* ShelfBase / select_depth_range (OceanData) and sel_depth_bnds            *)

sectors == <<"eais", "wedd", "amun", "ross", "apen">>

SectorNames == {sectors[n] : n \in 1..Len(sectors)}

\* the class attribute find_shelf_depth (a dict: a missing key is a KeyError)
find_shelf_depth ==
    [s \in SectorNames |->
        CASE s = "eais" -> 369
          [] s = "wedd" -> 420
          [] s = "amun" -> 305
          [] s = "ross" -> 312
          [] s = "apen" -> 420]

\* a dict lookup with a key of any type: only the five strings are keys
InShelfDepth(k) == k.type = "str" /\ k.name \in SectorNames

ShelfBase(k) ==
    IF InShelfDepth(k)
    THEN LET shelf_depth == find_shelf_depth[k.name]
         IN  [raised |-> "", ocean_slice |-> <<shelf_depth - 50, shelf_depth + 50>>]
    ELSE [raised |-> "KeyError", ocean_slice |-> <<>>]

select_depth_range(k) ==
    LET depth_bnds_sector == ShelfBase(k)
    IN  IF depth_bnds_sector.raised # ""
        THEN depth_bnds_sector
        ELSE [raised |-> "",
              ocean_slice |-> <<depth_bnds_sector.ocean_slice[1],
                                depth_bnds_sector.ocean_slice[2]>>]

\* sector_lev_mean: the band of the sector, then lev_weighted_mean on the
\* array it was given
sector_lev_mean(field, bnds, k) ==
    LET band == select_depth_range(k)
    IN  IF band.raised # ""
        THEN [raised |-> band.raised, top |-> 0, bottom |-> 0,
              lev_ind_top |-> Unset, lev_ind_bottom |-> Unset,
              lev_bnds |-> bnds, levs_weights |-> <<>>, mean |-> <<0, 0>>]
        ELSE LET r == lev_weighted_mean(field, bnds, band.ocean_slice[1], band.ocean_slice[2])
             IN  [raised |-> r.raised, top |-> band.ocean_slice[1], bottom |-> band.ocean_slice[2],
                  lev_ind_top |-> r.lev_ind_top, lev_ind_bottom |-> r.lev_ind_bottom,
                  lev_bnds |-> r.lev_bnds, levs_weights |-> r.levs_weights, mean |-> r.mean]

\* the array of the dataset after a callee has written into the array it was
\* handed, were that array ds_year.lev_bnds itself and no copy
ds_year_lev_bnds_shared(loaded, written) == written

\* ds_year.lev_bnds.mean("year").copy() is a new array on every evaluation:
\* what the callee writes into it does not reach ds_year.lev_bnds
ds_year_lev_bnds_copied(loaded, written) == loaded

\* one turn of the loop of weighted_mean_df for sector s: the column added
\* to df, the copy after sector_lev_mean has clipped it, and the array of the
\* dataset afterwards
weighted_mean_df_sector(field, loaded, s) ==
    LET r == sector_lev_mean(field, loaded, [type |-> "str", name |-> s, num |-> 0])
    IN  [raised |-> r.raised, top |-> r.top, bottom |-> r.bottom,
         lev_ind_top |-> r.lev_ind_top, lev_ind_bottom |-> r.lev_ind_bottom,
         levs_weights |-> r.levs_weights, thetaoVWM |-> r.mean,
         lev_bnds |-> r.lev_bnds,
         loaded_lev_bnds |-> ds_year_lev_bnds_copied(loaded, r.lev_bnds)]

\* sel_depth_bnds with a default band for every other integer key
sel_depth_bnds_default(k) ==
    IF k.type = "str"
    THEN IF k.name \in SectorNames
         THEN [raised |-> "",
               ocean_slice |-> <<find_shelf_depth[k.name] - 50, find_shelf_depth[k.name] + 50>>]
         ELSE [raised |-> "KeyError", ocean_slice |-> <<>>]
    ELSE IF k.num = 900 THEN [raised |-> "", ocean_slice |-> <<800, 1000>>]
    ELSE IF k.num = 550 THEN [raised |-> "", ocean_slice |-> <<400, 700>>]
    ELSE [raised |-> "", ocean_slice |-> <<k.num - 50, k.num + 50>>]

\* sel_depth_bnds: the str branch reads the table; the int branch assigns
\* ocean_slice for 900 and for 550 only; returning an ocean_slice that was
\* never assigned is an UnboundLocalError.
sel_depth_bnds(k) ==
    IF k.type = "str"
    THEN IF k.name \in SectorNames
         THEN LET shelf_depth == find_shelf_depth[k.name]
              IN  [raised |-> "", ocean_slice |-> <<shelf_depth - 50, shelf_depth + 50>>]
         ELSE [raised |-> "KeyError", ocean_slice |-> <<>>]
    ELSE IF k.type = "int"
    THEN LET shelf_depth == k.num
             s900 == IF shelf_depth = 900
                     THEN <<shelf_depth - 100, shelf_depth + 100>> ELSE <<>>
             s550 == IF shelf_depth = 550
                     THEN <<shelf_depth - 150, shelf_depth + 150>> ELSE s900
         IN  IF s550 = <<>>
             THEN [raised |-> "UnboundLocalError", ocean_slice |-> <<>>]
             ELSE [raised |-> "", ocean_slice |-> s550]
    ELSE [raised |-> "UnboundLocalError", ocean_slice |-> <<>>]

----------------------------------------------------------------------------
(* Coordinates of a dataset                                                 *)

\* the cells of a grid with the given axes
Cells(la, lo) == (1..Len(la)) \X (1..Len(lo))

\* ds.coords[name]: a KeyError when the dataset has no such coordinate
HasCoords(names, la_name, lo_name) == la_name \in names /\ lo_name \in names

\* numpy's + on two boolean arrays, cell by cell
BoolInt(a) == IF a THEN 1 ELSE 0

BoolAdd(a, b) == BoolInt(a) + BoolInt(b) > 0

----------------------------------------------------------------------------
(* mask_sector and sel_mask (func_data_variables_parameters.py)             *)

mask_eais(la, lo) ==
    BoolAdd(la > -76 /\ la < -65 /\ lo < 173,
            la > -76 /\ la < -65 /\ lo > 350)

mask_wedd(la, lo) == la < -72 /\ lo > 295 /\ lo < 350

mask_amun(la, lo) == la < -70 /\ lo > 210 /\ lo < 295

\* mask_ross without its latitude condition
mask_ross_any_lat(la, lo) == lo > 150 /\ lo < 210

mask_ross(la, lo) == la < -76 /\ lo > 150 /\ lo < 210

mask_apen(la, lo) ==
    BoolAdd(la > -70 /\ la < -65 /\ lo > 294 /\ lo < 310,
            la > -75 /\ la < -70 /\ lo > 285 /\ lo < 295)

\* mask_eais + mask_wedd + mask_amun + mask_ross, the sum that leaves out mask_apen
mask_anta_four(la, lo) ==
    BoolAdd(BoolAdd(BoolAdd(mask_eais(la, lo), mask_wedd(la, lo)), mask_amun(la, lo)),
            mask_ross(la, lo))

mask_anta(la, lo) ==
    BoolAdd(BoolAdd(BoolAdd(BoolAdd(mask_eais(la, lo), mask_wedd(la, lo)),
                            mask_amun(la, lo)),
                    mask_ross(la, lo)),
            mask_apen(la, lo))

MaskSectorNames == {"eais", "wedd", "amun", "ross", "apen", "anta"}

\* mask_sector: every sector's mask is computed from ds.coords[lat] and
\* ds.coords[lon]; an unknown sector leaves mask unassigned, and returning it
\* is an UnboundLocalError.
mask_sector(names, la, lo, sec, la_name, lo_name) ==
    IF ~HasCoords(names, la_name, lo_name)
    THEN [raised |-> "KeyError", mask |-> <<>>]
    ELSE IF sec \notin MaskSectorNames
    THEN [raised |-> "UnboundLocalError", mask |-> <<>>]
    ELSE [raised |-> "",
          mask |-> [c \in Cells(la, lo) |->
                      CASE sec = "eais" -> mask_eais(la[c[1]], lo[c[2]])
                        [] sec = "wedd" -> mask_wedd(la[c[1]], lo[c[2]])
                        [] sec = "amun" -> mask_amun(la[c[1]], lo[c[2]])
                        [] sec = "ross" -> mask_ross(la[c[1]], lo[c[2]])
                        [] sec = "apen" -> mask_apen(la[c[1]], lo[c[2]])
                        [] sec = "anta" -> mask_anta(la[c[1]], lo[c[2]])]]

\* sel_mask: mask_sector with latitude/longitude, and on any exception
\* mask_sector with lat/lon
sel_mask(names, la, lo, sec) ==
    LET first == mask_sector(names, la, lo, sec, "latitude", "longitude")
    IN  IF first.raised = "" THEN first
        ELSE mask_sector(names, la, lo, sec, "lat", "lon")

----------------------------------------------------------------------------
(* LevermannSectors (BasalMelt.py)                                          *)

eais1 == <<-76, -65, 0, 173>>
eais2 == <<-76, -65, 350, 0>>
wedd == <<-90, -72, 295, 350>>
amun == <<-90, -70, 210, 295>>
ross == <<-90, -76, 150, 210>>
apen1 == <<-70, -65, 294, 310>>
apen2 == <<-75, -70, 285, 295>>

\* the try block of create_mask only assigns two strings, so it cannot raise
\* and the names are always latitude and longitude
create_mask_names == <<"latitude", "longitude">>

create_mask(names, la, lo, rect) ==
    IF ~HasCoords(names, create_mask_names[1], create_mask_names[2])
    THEN [raised |-> "KeyError", mask |-> <<>>]
    ELSE [raised |-> "",
          mask |-> [c \in Cells(la, lo) |->
                      /\ la[c[1]] > rect[1]
                      /\ la[c[1]] < rect[2]
                      /\ lo[c[2]] > rect[3]
                      /\ lo[c[2]] < rect[4]]]

\* sector_masks: "mask_eais = self.create_mask(self.eais1)" ends the
\* statement; the next line, "+ self.create_mask(self.eais2)", is a statement
\* of its own whose value is dropped.  The same holds for apen1 and apen2.
sector_masks(names, la, lo) ==
    IF create_mask(names, la, lo, eais1).raised # ""
    THEN [raised |-> create_mask(names, la, lo, eais1).raised, masks |-> <<>>]
    ELSE [raised |-> "",
          masks |-> [s \in SectorNames |->
                       CASE s = "eais" -> create_mask(names, la, lo, eais1).mask
                         [] s = "wedd" -> create_mask(names, la, lo, wedd).mask
                         [] s = "amun" -> create_mask(names, la, lo, amun).mask
                         [] s = "ross" -> create_mask(names, la, lo, ross).mask
                         [] s = "apen" -> create_mask(names, la, lo, apen1).mask]]

----------------------------------------------------------------------------
(* BasalMelt (code/BasalMelt.py)                                            *)
(*                                                                          *)
(* Fixed point: a temperature is an integer number of tenths of a degree,   *)
(* c_lin is in units of 10^-5, ms in thousandths, and a melt value or       *)
(* anomaly in units of 10^-5 (tenth * tenth * thousandth).                  *)

rho_i == 917
rho_sw == 1028
c_po == 3974
L_i == 334000
Tf == 0 - 16

\* one melt unit (1.0) in the units of bm and dBM
MeltUnit == 10 * 10 * 1000

\* c_lin = (rho_sw*c_po)/(rho_i*L_i), in units of 10^-5
c_lin == (rho_sw * c_po) \div ((rho_i * L_i) \div 100000)

\* ms = gamma * 10**5 * c_lin**2, in thousandths
quad_constant(g) ==
    LET c_quad == c_lin * c_lin
    IN  g * (c_quad \div 100)

\* the melt formula of quadBasalMeltAnomalies in the older BasalMelt.py:
\* abs(dat) - Tf in place of abs(dat - Tf)
quadBasalMelt_abs_dat(g, dat) == (dat - Tf) * (Abs(dat) - Tf) * quad_constant(g)

quadBasalMelt(g, dat) ==
    LET ms == quad_constant(g)
    IN  (dat - Tf) * Abs(dat - Tf) * ms

\* the anomaly against the scalar class baseline of the older BasalMelt.py
\* (baseline = 1) in place of the base argument
BasalMeltAnomalies_scalar_baseline(g, th, ba) ==
    LET d == quadBasalMelt(g, th) - quadBasalMelt(g, 10)
    IN  IF d < 100 * MeltUnit /\ d > (0 - 100) * MeltUnit
        THEN [raised |-> "", dBM |-> d]
        ELSE [raised |-> "AssertionError", dBM |-> 0]

\* the anomaly with the two asserts compiled away: the difference is
\* returned whatever its size
BasalMeltAnomalies_no_assert(g, th, ba) ==
    [raised |-> "", dBM |-> quadBasalMelt(g, th) - quadBasalMelt(g, ba)]

\* BasalMeltAnomalies: the two asserts raise AssertionError
BasalMeltAnomalies(g, th, ba) ==
    LET BM_base == quadBasalMelt(g, ba)
        BM == quadBasalMelt(g, th)
        d == BM - BM_base
    IN  IF ~(d < 100 * MeltUnit) THEN [raised |-> "AssertionError", dBM |-> 0]
        ELSE IF ~(d > (0 - 100) * MeltUnit) THEN [raised |-> "AssertionError", dBM |-> 0]
        ELSE [raised |-> "", dBM |-> d]

\* BasalMelt.baseline: the baseline temperature of each sector, rounded to
\* tenths of a degree (a dict: get returns None for a missing key)
baseline ==
    [s \in SectorNames |->
        CASE s = "eais" -> 3
          [] s = "wedd" -> 0 - 15
          [] s = "amun" -> 22
          [] s = "ross" -> 5
          [] s = "apen" -> 0 - 6]

\* BasalMeltAnomalies on the array df[column].values: the melt and the
\* difference are elementwise; "assert dBM < 100" takes the truth value of
\* the boolean array, which is that of its element for an array of one
\* element and a ValueError for an array of any other length
BasalMeltAnomalies_values(g, values, ba) ==
    IF Len(values) = 1
    THEN LET r == BasalMeltAnomalies(g, values[1], ba)
         IN  [raised |-> r.raised, dBM |-> IF r.raised = "" THEN <<r.dBM>> ELSE <<>>]
    ELSE [raised |-> "ValueError", dBM |-> <<>>]

\* one column of thetao2basalmelt: baseline.get(column) is None for a name
\* outside the dict, and None - Tf is a TypeError
thetao2basalmelt_column(g, col) ==
    IF col[1] \in DOMAIN baseline
    THEN BasalMeltAnomalies_values(g, col[2], baseline[col[1]])
    ELSE [raised |-> "TypeError", dBM |-> <<>>]

\* thetao2basalmelt on the table weighted_mean_df returned: the columns in
\* order, the first exception ends the call; an empty df2 fails the last assert
thetao2basalmelt(g, tab) ==
    LET res == [k \in 1..Len(tab) |-> thetao2basalmelt_column(g, tab[k])]
        bad == {k \in 1..Len(tab) : res[k].raised # ""}
    IN  IF bad # {}
        THEN [raised |-> res[CHOOSE k \in bad : \A m \in bad : k <= m].raised, df2 |-> <<>>]
        ELSE IF Len(tab) = 0
        THEN [raised |-> "AssertionError", df2 |-> <<>>]
        ELSE [raised |-> "", df2 |-> [k \in 1..Len(tab) |-> <<tab[k][1], res[k].dBM>>]]

\* OceanData.baseline of the older BasalMelt.py (1 degree), in tenths
OceanData_baseline == 10

\* OceanData.calc_cquad: c_lin ** 2
calc_cquad == c_lin * c_lin

\* OceanData.quadBasalMeltAnomalies of the older BasalMelt.py: the second
\* factor is abs(T) - Tf, for the baseline and for thetao alike
quadBasalMeltAnomalies(g, th) ==
    LET c_quad == calc_cquad
        ms == g * (c_quad \div 100)
        BM_base == (OceanData_baseline - Tf) * (Abs(OceanData_baseline) - Tf) * ms
        BM == (th - Tf) * (Abs(th) - Tf) * ms
    IN  BM - BM_base

----------------------------------------------------------------------------
(* LevermannMask.map2amr (older BasalMelt.py)                               *)

\* the grid of one row with the sectors taken in the order of the class
\* attribute sectors (smask1 eais, smask2 wedd, smask3 amun, smask4 ross,
\* smask5 apen)
map2amr_row_class_order(bm_masks, r) ==
    IF {"eais", "wedd", "amun", "ross", "apen"} \subseteq DOMAIN r
    THEN [raised |-> "",
          new_mask |-> [c \in 1..Len(bm_masks["smask1"]) |->
              IF bm_masks["smask5"][c] = 1 THEN r["apen"]
              ELSE IF bm_masks["smask4"][c] = 1 THEN r["ross"]
              ELSE IF bm_masks["smask3"][c] = 1 THEN r["amun"]
              ELSE IF bm_masks["smask2"][c] = 1 THEN r["wedd"]
              ELSE IF bm_masks["smask1"][c] = 1 THEN r["eais"]
              ELSE bm_masks["smask1"][c]]]
    ELSE [raised |-> "AttributeError", new_mask |-> <<>>]

\* the five np.where lines of map2amr for one row r (column -> value): each
\* tests a mask of OpenMasks, the first starts from smask1 itself; row.<name>
\* for a column the row does not have is an AttributeError
map2amr_row(bm_masks, r) ==
    LET cells == 1..Len(bm_masks["smask1"])
        m1 == [c \in cells |-> IF bm_masks["smask1"][c] = 1 THEN r["apen"]
                                                           ELSE bm_masks["smask1"][c]]
        m2 == [c \in cells |-> IF bm_masks["smask2"][c] = 1 THEN r["amun"] ELSE m1[c]]
        m3 == [c \in cells |-> IF bm_masks["smask3"][c] = 1 THEN r["ross"] ELSE m2[c]]
        m4 == [c \in cells |-> IF bm_masks["smask4"][c] = 1 THEN r["eais"] ELSE m3[c]]
        m5 == [c \in cells |-> IF bm_masks["smask5"][c] = 1 THEN r["wedd"] ELSE m4[c]]
    IN  IF {"apen", "amun", "ross", "eais", "wedd"} \subseteq DOMAIN r
        THEN [raised |-> "", new_mask |-> m5]
        ELSE [raised |-> "AttributeError", new_mask |-> <<>>]

----------------------------------------------------------------------------
(* AMRfiles.stats / AMRfiles.lev0means (AMRtools.py)                        *)

\* AMRfile.statsRetrieve(self, driver, df, hdf5) called on the class: self is
\* whatever comes first.  self.statsRun exists on an AMRfile only; its series
\* is that of the file of self: the time and the statistics of the file
statsRetrieve(self_arg, driver) ==
    IF self_arg.class = "AMRfile"
    THEN [raised |-> "", a_series |-> <<self_arg.file.time, self_arg.file.id>>]
    ELSE [raised |-> "AttributeError", a_series |-> <<>>]

\* the worker call of stats on file f:
\* delayed(AMRfile.statsRetrieve)(statsTool, i, df, hdf5), self is the
\* string statsTool and driver the file
stats_call(f) == statsRetrieve([class |-> "str"], f)

\* lev0means up to the Parallel call: AMRfile.get_varnames is no attribute
\* of the class (the method is get_names)
lev0means_get_varnames == [raised |-> "AttributeError"]

Perms(n) == {q \in [1..n -> 1..n] : \A a, b \in 1..n : a # b => q[a] # q[b]}

\* df.sort_values(by=['time']) then reset_index: the rows in every order that
\* is non-decreasing in the time (the first field)
SortedByTime(rws) ==
    {[k \in 1..Len(rws) |-> rws[q[k]]] : q \in
        {q \in Perms(Len(rws)) :
            \A k \in 1..(Len(rws) - 1) : rws[q[k]][1] <= rws[q[k + 1]][1]}}

----------------------------------------------------------------------------
(* Inputs *)

Depths == 0..MaxDepth

\* LevelBounds of the data model: bottom > top in each pair, pairs
\* non-overlapping and increasing in depth.
IsLevelBounds(b) ==
    /\ \A n \in 1..Len(b) : b[n][2] > b[n][1]
    /\ \A n \in 1..(Len(b) - 1) : b[n + 1][1] >= b[n][2]

\* every LevelBounds of n levels over Depths
RECURSIVE LevelBoundsOf(_)
LevelBoundsOf(n) ==
    IF n = 1
    THEN {<<p>> : p \in {q \in Depths \X Depths : q[2] > q[1]}}
    ELSE UNION {{Append(x, p) : p \in {q \in Depths \X Depths :
                                          q[2] > q[1] /\ q[1] >= x[Len(x)][2]}}
                : x \in LevelBoundsOf(n - 1)}

LevelBoundsSet == UNION {LevelBoundsOf(n) : n \in 1..MaxLev}

\* level edges (metres) around the shelf-base bands of the sectors
ShelfDepths == {0, 100, 300, 500, 800}

\* every LevelBounds of n levels with edges in D
RECURSIVE LevelBoundsOver(_, _)
LevelBoundsOver(D, n) ==
    IF n = 1
    THEN {<<p>> : p \in {q \in D \X D : q[2] > q[1]}}
    ELSE UNION {{Append(x, p) : p \in {q \in D \X D :
                                          q[2] > q[1] /\ q[1] >= x[Len(x)][2]}}
                : x \in LevelBoundsOver(D, n - 1)}

ShelfLevelBoundsSet == UNION {LevelBoundsOver(ShelfDepths, n) : n \in 1..(MaxLev + 1)}

\* the four levels of the amun scenario
ScenarioLevelBounds == <<<<0, 100>>, <<100, 300>>, <<300, 500>>, <<500, 800>>>>

\* the sector arguments tried: the five sectors and a name outside the table
SectorKeys == [type : {"str"}, name : SectorNames \cup {"anta"}, num : {0}]

Fields(n) == [1..n -> 0..MaxTemp]

\* names that are no sector of the table, and the keys tried
OtherNames == {"anta", "EAIS", ""}

Keys ==
    [type : {"str"}, name : SectorNames \cup OtherNames, num : {0}]
        \cup [type : {"int", "float"}, name : {""}, num : 0..MaxKey]

\* the coordinate namings of the datasets tried
CoordNamings == {{"latitude", "longitude"}, {"lat", "lon"}, {"x", "y"}}

LatValues == {-80, -77, -76, -73, -70, -67, -60}
LonValues == {0, 100, 200, 290, 300, 355}

\* the increasing axes of n values
Axes(values, n) == {a \in [1..n -> values] : \A k \in 1..(n - 1) : a[k] < a[k + 1]}

\* the 4x4 grid of the ross scenario
ScenarioLats == <<-80, -77, -70, -60>>
ScenarioLons == <<0, 100, 200, 300>>

Grids ==
    (Axes(LatValues, GridSide) \X Axes(LonValues, GridSide))
        \cup {<<ScenarioLats, ScenarioLons>>}

Rects == {eais1, eais2, wedd, amun, ross, apen1, apen2}

MaskIdle ==
    /\ coord_names = {}
    /\ lats = <<>>
    /\ lons = <<>>
    /\ sector = ""
    /\ lat = ""
    /\ lon = ""
    /\ coords = <<>>
    /\ mask = <<>>
    /\ masks = <<>>

LevIdle ==
    /\ ds = <<>>
    /\ loaded_lev_bnds = <<>>
    /\ lev_bnds = <<>>
    /\ top = 0
    /\ bottom = 0
    /\ lev_ind_top = Unset
    /\ lev_ind_bottom = Unset
    /\ levs_weights = <<>>
    /\ levs_weighted_mean = <<0, 0>>

BandIdle ==
    /\ key = [type |-> "str", name |-> "", num |-> 0]
    /\ ocean_slice = <<>>

Temperatures == (0 - MaxAbsTemp)..MaxAbsTemp

Gammas == (0 - 1)..MaxGamma

TableIdle ==
    /\ todo = <<>>
    /\ df = <<>>
    /\ df2 = <<>>

ScatterIdle ==
    /\ bisicles_masks = <<>>
    /\ columns = <<>>
    /\ row_index = 0
    /\ row = <<>>
    /\ new_mask = <<>>

AmrIdle ==
    /\ files = <<>>
    /\ num_jobs = 0
    /\ jobs = <<>>
    /\ table = <<>>

RestIdle == TableIdle /\ ScatterIdle /\ AmrIdle

MeltIdle ==
    /\ gamma = 0
    /\ thetao = 0
    /\ base = 0
    /\ bm = 0
    /\ dBM = 0

InitMelt ==
    /\ op \in {"quadBasalMelt", "BasalMeltAnomalies", "quadBasalMeltAnomalies"}
    /\ pc = "call"
    /\ raised = ""
    /\ gamma \in Gammas
    /\ thetao \in Temperatures
    /\ base \in IF op = "BasalMeltAnomalies" THEN Temperatures ELSE {0}
    /\ bm = 0
    /\ dBM = 0
    /\ LevIdle
    /\ BandIdle
    /\ MaskIdle
    /\ RestIdle

InitMask ==
    /\ op \in {"mask_sector", "sel_mask", "create_mask", "sector_masks"}
    /\ pc = "call"
    /\ raised = ""
    /\ coord_names \in CoordNamings
    /\ \E g \in Grids : lats = g[1] /\ lons = g[2]
    /\ sector \in IF op \in {"mask_sector", "sel_mask"}
                  THEN MaskSectorNames \cup {"none"} ELSE {""}
    /\ \E n \in IF op = "mask_sector"
                THEN {<<"latitude", "longitude">>, <<"lat", "lon">>} ELSE {<<"", "">>} :
           lat = n[1] /\ lon = n[2]
    /\ coords \in IF op = "create_mask" THEN Rects ELSE {<<>>}
    /\ mask = <<>>
    /\ masks = <<>>
    /\ LevIdle
    /\ BandIdle
    /\ MeltIdle
    /\ RestIdle

InitLev ==
    /\ op = "lev_weighted_mean"
    /\ pc = "call"
    /\ raised = ""
    /\ loaded_lev_bnds \in LevelBoundsSet
    /\ lev_bnds = loaded_lev_bnds
    /\ ds \in Fields(Len(lev_bnds))
    /\ top \in Depths
    /\ bottom \in Depths
    /\ bottom > top
    /\ lev_ind_top = Unset
    /\ lev_ind_bottom = Unset
    /\ levs_weights = <<>>
    /\ levs_weighted_mean = <<0, 0>>
    /\ BandIdle
    /\ MaskIdle
    /\ MeltIdle
    /\ RestIdle

InitSectorLev ==
    /\ op = "sector_lev_mean"
    /\ pc = "call"
    /\ raised = ""
    /\ loaded_lev_bnds \in ShelfLevelBoundsSet
    /\ lev_bnds = loaded_lev_bnds
    /\ ds \in Fields(Len(lev_bnds))
    /\ key \in SectorKeys
    /\ ocean_slice = <<>>
    /\ top = 0
    /\ bottom = 0
    /\ lev_ind_top = Unset
    /\ lev_ind_bottom = Unset
    /\ levs_weights = <<>>
    /\ levs_weighted_mean = <<0, 0>>
    /\ MaskIdle
    /\ MeltIdle
    /\ RestIdle

\* the orders of sectors tried: the class attribute, and every sequence of up
\* to MaxSectors different sectors
SectorOrders ==
    {sectors} \cup
    UNION {{q \in [1..n -> SectorNames] : \A a, b \in 1..n : a # b => q[a] # q[b]}
           : n \in 0..MaxSectors}

InitSeries ==
    /\ op = "weighted_mean_df"
    /\ pc = "call"
    /\ raised = ""
    /\ loaded_lev_bnds \in ShelfLevelBoundsSet
    /\ lev_bnds = <<>>
    /\ ds \in Fields(Len(loaded_lev_bnds))
    /\ top = 0
    /\ bottom = 0
    /\ lev_ind_top = Unset
    /\ lev_ind_bottom = Unset
    /\ levs_weights = <<>>
    /\ levs_weighted_mean = <<0, 0>>
    /\ todo \in SectorOrders
    /\ df = <<>>
    /\ df2 = <<>>
    /\ BandIdle
    /\ MaskIdle
    /\ MeltIdle
    /\ ScatterIdle
    /\ AmrIdle

\* the temperatures of the tables tried, in tenths of a degree
TableTemps == {0, 10}

\* the tables weighted_mean_df returns: a column per sector of self.sectors,
\* in that order, with n year rows
TemperatureTables(n) ==
    {[k \in 1..Len(sectors) |-> <<sectors[k], t[k]>>] :
        t \in [1..Len(sectors) -> [1..n -> TableTemps]]}

InitMeltTable ==
    /\ op = "thetao2basalmelt"
    /\ pc = "call"
    /\ raised = ""
    /\ gamma \in Gammas
    /\ df \in UNION {TemperatureTables(n) : n \in 1..MaxRows}
    /\ df2 = <<>>
    /\ todo = <<>>
    /\ thetao = 0
    /\ base = 0
    /\ bm = 0
    /\ dBM = 0
    /\ LevIdle
    /\ BandIdle
    /\ MaskIdle
    /\ ScatterIdle
    /\ AmrIdle

SmaskNames == {"smask1", "smask2", "smask3", "smask4", "smask5"}

\* the 0/1 grid of smask<n> when cell c belongs to sector number a[c] (0: none)
SmaskOf(a, name) ==
    LET n == CASE name = "smask1" -> 1 [] name = "smask2" -> 2 [] name = "smask3" -> 3
               [] name = "smask4" -> 4 [] name = "smask5" -> 5
    IN  [c \in 1..NCells |-> IF a[c] = n THEN 1 ELSE 0]

\* the dicts of five pairwise disjoint 0/1 masks over NCells cells
DisjointMasks ==
    {[name \in SmaskNames |-> SmaskOf(a, name)] : a \in [1..NCells -> 0..5]}

\* a row of five different anomalies
DistinctAnomalies ==
    [s \in SectorNames |->
        CASE s = "eais" -> 0 - 7
          [] s = "wedd" -> 0 - 3
          [] s = "amun" -> 2
          [] s = "ross" -> 5
          [] s = "apen" -> 9]

\* the columns of the tables tried: the five sectors, or one sector alone
ColumnSets == {sectors} \cup {<<s>> : s \in SectorNames}

\* the rows tried for a table of columns cols: every row of values 0 and 1
\* (the values the masks themselves hold), and the row of different anomalies
Rows(cols) ==
    LET names == {cols[k] : k \in 1..Len(cols)}
    IN  [names -> {0, 1}] \cup {[s \in names |-> DistinctAnomalies[s]]}

InitScatter ==
    /\ op = "map2amr"
    /\ pc = "call"
    /\ raised = ""
    /\ bisicles_masks \in DisjointMasks
    /\ columns \in ColumnSets
    /\ row_index = 0
    /\ row = <<>>
    /\ new_mask = <<>>
    /\ LevIdle
    /\ BandIdle
    /\ MaskIdle
    /\ MeltIdle
    /\ TableIdle
    /\ AmrIdle

\* the listings glob can return: up to MaxFiles files in any order, each
\* with a time key
Listings ==
    UNION {{[k \in 1..n |-> [id |-> q[k], time |-> t[q[k]]]] :
               q \in Perms(n), t \in [1..n -> 0..MaxTime]}
           : n \in 0..MaxFiles}

InitAmr ==
    /\ op \in {"stats", "lev0means"}
    /\ pc = "call"
    /\ raised = ""
    /\ files \in Listings
    /\ num_jobs \in IF op = "stats" THEN 1..MaxJobs ELSE {2}
    /\ jobs = [k \in 1..Len(files) |-> "pending"]
    /\ table = <<>>
    /\ LevIdle
    /\ BandIdle
    /\ MaskIdle
    /\ MeltIdle
    /\ TableIdle
    /\ ScatterIdle

InitBand ==
    /\ op \in {"ShelfBase", "select_depth_range", "sel_depth_bnds"}
    /\ pc = "call"
    /\ raised = ""
    /\ key \in Keys
    /\ ocean_slice = <<>>
    /\ LevIdle
    /\ MaskIdle
    /\ MeltIdle
    /\ RestIdle

----------------------------------------------------------------------------
(* Actions *)

Do_lev_weighted_mean ==
    /\ op = "lev_weighted_mean"
    /\ pc = "call"
    /\ LET r == lev_weighted_mean(ds, lev_bnds, top, bottom)
       IN  /\ raised' = r.raised
           /\ lev_ind_top' = r.lev_ind_top
           /\ lev_ind_bottom' = r.lev_ind_bottom
           /\ lev_bnds' = r.lev_bnds
           /\ levs_weights' = r.levs_weights
           /\ levs_weighted_mean' = r.mean
    /\ pc' = "done"
    /\ UNCHANGED <<op, ds, loaded_lev_bnds, top, bottom, bandVars, maskVars, meltVars, restVars>>

Do_ShelfBase ==
    /\ op = "ShelfBase"
    /\ pc = "call"
    /\ raised' = ShelfBase(key).raised
    /\ ocean_slice' = ShelfBase(key).ocean_slice
    /\ pc' = "done"
    /\ UNCHANGED <<op, key, levVars, maskVars, meltVars, restVars>>

Do_select_depth_range ==
    /\ op = "select_depth_range"
    /\ pc = "call"
    /\ raised' = select_depth_range(key).raised
    /\ ocean_slice' = select_depth_range(key).ocean_slice
    /\ pc' = "done"
    /\ UNCHANGED <<op, key, levVars, maskVars, meltVars, restVars>>

Do_sel_depth_bnds ==
    /\ op = "sel_depth_bnds"
    /\ pc = "call"
    /\ raised' = sel_depth_bnds(key).raised
    /\ ocean_slice' = sel_depth_bnds(key).ocean_slice
    /\ pc' = "done"
    /\ UNCHANGED <<op, key, levVars, maskVars, meltVars, restVars>>

Do_mask_sector ==
    /\ op = "mask_sector"
    /\ pc = "call"
    /\ raised' = mask_sector(coord_names, lats, lons, sector, lat, lon).raised
    /\ mask' = mask_sector(coord_names, lats, lons, sector, lat, lon).mask
    /\ pc' = "done"
    /\ UNCHANGED <<op, coord_names, lats, lons, sector, lat, lon, coords, masks,
                   levVars, bandVars, meltVars, restVars>>

Do_sel_mask ==
    /\ op = "sel_mask"
    /\ pc = "call"
    /\ raised' = sel_mask(coord_names, lats, lons, sector).raised
    /\ mask' = sel_mask(coord_names, lats, lons, sector).mask
    /\ pc' = "done"
    /\ UNCHANGED <<op, coord_names, lats, lons, sector, lat, lon, coords, masks,
                   levVars, bandVars, meltVars, restVars>>

Do_create_mask ==
    /\ op = "create_mask"
    /\ pc = "call"
    /\ raised' = create_mask(coord_names, lats, lons, coords).raised
    /\ mask' = create_mask(coord_names, lats, lons, coords).mask
    /\ pc' = "done"
    /\ UNCHANGED <<op, coord_names, lats, lons, sector, lat, lon, coords, masks,
                   levVars, bandVars, meltVars, restVars>>

Do_sector_masks ==
    /\ op = "sector_masks"
    /\ pc = "call"
    /\ raised' = sector_masks(coord_names, lats, lons).raised
    /\ masks' = sector_masks(coord_names, lats, lons).masks
    /\ pc' = "done"
    /\ UNCHANGED <<op, coord_names, lats, lons, sector, lat, lon, coords, mask,
                   levVars, bandVars, meltVars, restVars>>

Do_quadBasalMelt ==
    /\ op = "quadBasalMelt"
    /\ pc = "call"
    /\ bm' = quadBasalMelt(gamma, thetao)
    /\ pc' = "done"
    /\ UNCHANGED <<op, raised, gamma, thetao, base, dBM, levVars, bandVars, maskVars, restVars>>

Do_BasalMeltAnomalies ==
    /\ op = "BasalMeltAnomalies"
    /\ pc = "call"
    /\ raised' = BasalMeltAnomalies(gamma, thetao, base).raised
    /\ dBM' = BasalMeltAnomalies(gamma, thetao, base).dBM
    /\ pc' = "done"
    /\ UNCHANGED <<op, gamma, thetao, base, bm, levVars, bandVars, maskVars, restVars>>

Do_quadBasalMeltAnomalies ==
    /\ op = "quadBasalMeltAnomalies"
    /\ pc = "call"
    /\ dBM' = quadBasalMeltAnomalies(gamma, thetao)
    /\ pc' = "done"
    /\ UNCHANGED <<op, raised, gamma, thetao, base, bm, levVars, bandVars, maskVars, restVars>>

Do_sector_lev_mean ==
    /\ op = "sector_lev_mean"
    /\ pc = "call"
    /\ \E r \in {sector_lev_mean(ds, lev_bnds, key)} :
           /\ raised' = r.raised
           /\ top' = r.top
           /\ bottom' = r.bottom
           /\ lev_ind_top' = r.lev_ind_top
           /\ lev_ind_bottom' = r.lev_ind_bottom
           /\ lev_bnds' = r.lev_bnds
           /\ levs_weights' = r.levs_weights
           /\ levs_weighted_mean' = r.mean
    /\ pc' = "done"
    /\ UNCHANGED <<op, ds, loaded_lev_bnds, bandVars, maskVars, meltVars, restVars>>

\* the body of "for sector in self.sectors" for the next sector
Do_weighted_mean_df_sector ==
    /\ op = "weighted_mean_df"
    /\ pc = "call"
    /\ todo # <<>>
    /\ \E r \in {weighted_mean_df_sector(ds, loaded_lev_bnds, Head(todo))} :
           /\ raised' = r.raised
           /\ top' = r.top
           /\ bottom' = r.bottom
           /\ lev_ind_top' = r.lev_ind_top
           /\ lev_ind_bottom' = r.lev_ind_bottom
           /\ levs_weights' = r.levs_weights
           /\ levs_weighted_mean' = r.thetaoVWM
           /\ lev_bnds' = r.lev_bnds
           /\ loaded_lev_bnds' = r.loaded_lev_bnds
           /\ IF r.raised = ""
              THEN /\ df' = Append(df, <<Head(todo), r.thetaoVWM>>)
                   /\ todo' = Tail(todo)
                   /\ pc' = pc
              ELSE /\ pc' = "done"
                   /\ UNCHANGED <<df, todo>>
    /\ UNCHANGED <<op, ds, df2, bandVars, maskVars, meltVars, scatterVars, amrVars>>

\* the loop is over: return df
Do_weighted_mean_df_return ==
    /\ op = "weighted_mean_df"
    /\ pc = "call"
    /\ todo = <<>>
    /\ pc' = "done"
    /\ UNCHANGED <<op, raised, levVars, bandVars, maskVars, meltVars, restVars>>

Do_thetao2basalmelt ==
    /\ op = "thetao2basalmelt"
    /\ pc = "call"
    /\ \E r \in {thetao2basalmelt(gamma, df)} :
           /\ raised' = r.raised
           /\ df2' = r.df2
    /\ pc' = "done"
    /\ UNCHANGED <<op, todo, df, levVars, bandVars, maskVars, meltVars, scatterVars, amrVars>>

\* the body of "for i, row in df2.iterrows()" for the next row of the table;
\* the grid is written to the file (da.to_netcdf) when the row is mapped
Do_map2amr_row ==
    /\ op = "map2amr"
    /\ pc = "call"
    /\ row_index < MaxRows
    /\ \E r \in Rows(columns) :
           /\ row' = r
           /\ raised' = map2amr_row(bisicles_masks, r).raised
           /\ IF map2amr_row(bisicles_masks, r).raised = ""
              THEN /\ new_mask' = map2amr_row(bisicles_masks, r).new_mask
                   /\ pc' = pc
              ELSE /\ new_mask' = new_mask
                   /\ pc' = "done"
    /\ row_index' = row_index + 1
    /\ UNCHANGED <<op, bisicles_masks, columns, levVars, bandVars, maskVars, meltVars,
                   tableVars, amrVars>>

\* iterrows is exhausted: the table had row_index rows
Do_map2amr_return ==
    /\ op = "map2amr"
    /\ pc = "call"
    /\ pc' = "done"
    /\ UNCHANGED <<op, raised, levVars, bandVars, maskVars, meltVars, restVars>>

\* lev0means fails before its Parallel call
Do_lev0means ==
    /\ op = "lev0means"
    /\ pc = "call"
    /\ raised' = lev0means_get_varnames.raised
    /\ pc' = "done"
    /\ UNCHANGED <<op, levVars, bandVars, maskVars, meltVars, restVars>>

\* Parallel hands the next file of the listing to a free worker
Do_stats_dispatch ==
    /\ op = "stats"
    /\ pc = "call"
    /\ \A k \in 1..Len(jobs) : jobs[k] # "failed"
    /\ Cardinality({k \in 1..Len(jobs) : jobs[k] = "running"}) < num_jobs
    /\ \E k \in 1..Len(jobs) :
           /\ jobs[k] = "pending"
           /\ \A m \in 1..(k - 1) : jobs[m] # "pending"
           /\ jobs' = [jobs EXCEPT ![k] = "running"]
    /\ UNCHANGED <<op, pc, raised, files, num_jobs, table, levVars, bandVars, maskVars,
                   meltVars, tableVars, scatterVars>>

\* a worker ends its call, in any order among the running ones
Do_stats_worker ==
    /\ op = "stats"
    /\ pc = "call"
    /\ \E k \in 1..Len(jobs) :
           /\ jobs[k] = "running"
           /\ jobs' = [jobs EXCEPT ![k] = IF stats_call(files[k]).raised = ""
                                           THEN "returned" ELSE "failed"]
    /\ UNCHANGED <<op, pc, raised, files, num_jobs, table, levVars, bandVars, maskVars,
                   meltVars, tableVars, scatterVars>>

\* Parallel returns the results in the order of the listing, or raises the
\* exception of a failed call; the rows are appended, sorted by time and
\* renumbered
Do_stats_gather ==
    /\ op = "stats"
    /\ pc = "call"
    /\ \/ \E k \in 1..Len(jobs) : jobs[k] = "failed"
       \/ \A k \in 1..Len(jobs) : jobs[k] = "returned"
    /\ IF \E k \in 1..Len(jobs) : jobs[k] = "failed"
       THEN /\ raised' = "AttributeError"
            /\ table' = table
       ELSE /\ raised' = raised
            /\ table' \in SortedByTime([k \in 1..Len(files) |-> stats_call(files[k]).a_series])
    /\ pc' = "done"
    /\ UNCHANGED <<op, files, num_jobs, jobs, levVars, bandVars, maskVars,
                   meltVars, tableVars, scatterVars>>

NextLev == Do_lev_weighted_mean \/ Do_sector_lev_mean

NextBand == Do_ShelfBase \/ Do_select_depth_range \/ Do_sel_depth_bnds

SpecLev == (InitLev \/ InitSectorLev) /\ [][NextLev]_vars

NextMask == Do_mask_sector \/ Do_sel_mask \/ Do_create_mask \/ Do_sector_masks

SpecBand == InitBand /\ [][NextBand]_vars

SpecMask == InitMask /\ [][NextMask]_vars

NextMelt == Do_quadBasalMelt \/ Do_BasalMeltAnomalies \/ Do_quadBasalMeltAnomalies

SpecMelt == InitMelt /\ [][NextMelt]_vars

NextTable == Do_weighted_mean_df_sector \/ Do_weighted_mean_df_return

SpecTable == InitSeries /\ [][NextTable]_vars

NextMeltTable == Do_thetao2basalmelt

SpecMeltTable == InitMeltTable /\ [][NextMeltTable]_vars

NextScatter == Do_map2amr_row \/ Do_map2amr_return

SpecScatter == InitScatter /\ [][NextScatter]_vars

NextAmr == Do_lev0means \/ Do_stats_dispatch \/ Do_stats_worker \/ Do_stats_gather

SpecAmr == InitAmr /\ [][NextAmr]_vars

\* every call of the model
Init ==
    \/ InitLev \/ InitSectorLev \/ InitBand \/ InitMask \/ InitMelt
    \/ InitSeries \/ InitMeltTable \/ InitScatter \/ InitAmr

Next ==
    \/ NextLev \/ NextBand \/ NextMask \/ NextMelt
    \/ NextTable \/ NextMeltTable \/ NextScatter \/ NextAmr

Spec == Init /\ [][Next]_vars

----------------------------------------------------------------------------
(* Properties of lev_weighted_mean                                          *)

\* lev_weighted_mean has returned a mean (both level searches succeeded)
LevReturned == op = "lev_weighted_mean" /\ pc = "done" /\ raised = ""

\* lev_weighted_mean has raised
LevRaised == op = "lev_weighted_mean" /\ pc = "done" /\ raised # ""

\* each level starts where the level above it ends
Contiguous(b) == \A n \in 1..(Len(b) - 1) : b[n + 1][1] = b[n][2]

WeightsNonNegative == \A k \in 1..Len(levs_weights) : levs_weights[k] >= 0

\* C1 as stated: for every LevelBounds of the data model (bottom > top in each
\* pair, pairs non-overlapping and increasing) and every band with bottom > top
\* for which both searches succeed, the clipped-thickness weights are all >= 0
\* and sum to exactly bottom - top.
C1_WeightsSumToBand ==
    (LevReturned /\ IsLevelBounds(loaded_lev_bnds) /\ bottom > top)
        => (WeightsNonNegative /\ SumSeq(levs_weights) = bottom - top)

\* C1 amended: the weights are all >= 0 for every such LevelBounds, and they
\* sum to exactly bottom - top when the levels are also contiguous (each level
\* starts where the previous one ends, so no gap lies inside the band).
C1_WeightsSumToBandContiguous ==
    (LevReturned /\ IsLevelBounds(loaded_lev_bnds) /\ bottom > top)
        => /\ WeightsNonNegative
           /\ Contiguous(loaded_lev_bnds) => SumSeq(levs_weights) = bottom - top

\* C1 witness: contiguous levels, a band that cuts two different levels
\* partially, and both edge levels clipped to a positive thickness.
C1_Witness ==
    /\ LevReturned
    /\ Contiguous(loaded_lev_bnds)
    /\ lev_ind_bottom > lev_ind_top
    /\ loaded_lev_bnds[lev_ind_top + 1][1] < top
    /\ loaded_lev_bnds[lev_ind_bottom + 1][2] > bottom
    /\ levs_weights[1] > 0
    /\ levs_weights[Len(levs_weights)] > 0
    /\ lev_bnds # loaded_lev_bnds

\* 0-based indices of the levels whose lower bound is >= / > bottom and whose
\* upper bound is <= / < top
LowerAtLeast == {n \in 0..(Len(loaded_lev_bnds) - 1) : loaded_lev_bnds[n + 1][2] >= bottom}
LowerBeyond == {n \in 0..(Len(loaded_lev_bnds) - 1) : loaded_lev_bnds[n + 1][2] > bottom}
UpperAtMost == {n \in 0..(Len(loaded_lev_bnds) - 1) : loaded_lev_bnds[n + 1][1] <= top}
UpperBefore == {n \in 0..(Len(loaded_lev_bnds) - 1) : loaded_lev_bnds[n + 1][1] < top}

Least(S) == CHOOSE n \in S : \A m \in S : n <= m
Greatest(S) == CHOOSE n \in S : \A m \in S : n >= m

SlicedExactly ==
    /\ Len(levs_weights) = lev_ind_bottom - lev_ind_top + 1
    /\ \A n \in 1..Len(lev_bnds) :
          (n < lev_ind_top + 1 \/ n > lev_ind_bottom + 1) => lev_bnds[n] = loaded_lev_bnds[n]

\* C2 as stated: the slice is the inclusive range [i, j] with j the least index
\* whose lower bound is >= bottom and i the greatest index whose upper bound is
\* <= top, also when bottom or top coincides with a level bound.
C2_SliceInclusiveBounds ==
    LevReturned
        => /\ LowerAtLeast # {} /\ lev_ind_bottom = Least(LowerAtLeast)
           /\ UpperAtMost # {} /\ lev_ind_top = Greatest(UpperAtMost)
           /\ SlicedExactly

\* C2 amended: the slice is the inclusive range [i, j] with j the least index
\* whose lower bound is strictly greater than bottom and i the greatest index
\* whose upper bound is strictly less than top; a bound that coincides with
\* bottom or top does not qualify.
C2_SliceStrictBounds ==
    LevReturned
        => /\ LowerBeyond # {} /\ lev_ind_bottom = Least(LowerBeyond)
           /\ UpperBefore # {} /\ lev_ind_top = Greatest(UpperBefore)
           /\ SlicedExactly

\* C2 witness: bottom coincides with one level's lower bound and top with
\* another level's upper bound, and the call returned.
C2_Witness ==
    /\ LevReturned
    /\ \E n \in 1..Len(loaded_lev_bnds) : loaded_lev_bnds[n][2] = bottom
    /\ \E n \in 1..Len(loaded_lev_bnds) : loaded_lev_bnds[n][1] = top
    /\ lev_ind_bottom > lev_ind_top

\* C3: when no level qualifies in the nearest-above search or in the
\* nearest-below search, lev_weighted_mean raises and returns no mean; a mean
\* is only ever returned from indices of levels that qualify.
C3_NoLevelRaises ==
    op = "lev_weighted_mean" /\ pc = "done"
        => /\ (LowerBeyond = {} \/ UpperBefore = {})
                => (raised # "" /\ levs_weights = <<>> /\ levs_weighted_mean = <<0, 0>>
                    /\ lev_bnds = loaded_lev_bnds)
           /\ raised = ""
                => (lev_ind_bottom \in LowerBeyond /\ lev_ind_top \in UpperBefore)

\* C3 witness: the band's bottom lies beyond the deepest lower bound and the
\* call raised.
C3_Witness ==
    /\ LevRaised
    /\ \A n \in 1..Len(loaded_lev_bnds) : loaded_lev_bnds[n][2] < bottom
    /\ UpperBefore # {}

----------------------------------------------------------------------------
(* Properties of the depth-band lookup                                      *)

BandDone == op \in {"ShelfBase", "select_depth_range", "sel_depth_bnds"} /\ pc = "done"

\* the bands of the five sectors: the table depth -50 and +50
SectorBand(name) ==
    CASE name = "eais" -> <<319, 419>>
      [] name = "wedd" -> <<370, 470>>
      [] name = "amun" -> <<255, 355>>
      [] name = "ross" -> <<262, 362>>
      [] name = "apen" -> <<370, 470>>

IsSectorKey == key.type = "str" /\ key.name \in {"eais", "wedd", "amun", "ross", "apen"}

BandFails == raised # "" /\ ocean_slice = <<>>

----------------------------------------------------------------------------
(* Properties of the sector masks                                           *)

GridCells == Cells(lats, lons)

\* the (latitude, longitude) of the cells a mask selects
Selected(m) == {<<lats[c[1]], lons[c[2]]>> : c \in {d \in DOMAIN m : m[d]}}

LatLonNamings == {{"latitude", "longitude"}, {"lat", "lon"}}

\* the mask create_mask returns for a rectangle on a dataset that names its
\* coordinates latitude and longitude
RectMask(rect) == create_mask({"latitude", "longitude"}, lats, lons, rect).mask

\* C4: the mask sector_masks returns for eais is the logical OR of
\* create_mask(eais1) and create_mask(eais2), and the mask for apen is the
\* logical OR of create_mask(apen1) and create_mask(apen2), on every grid.
C4_TwoRectangleSectors ==
    (op = "sector_masks" /\ pc = "done" /\ raised = "")
        => \A c \in GridCells :
              /\ masks["eais"][c] = (RectMask(eais1)[c] \/ RectMask(eais2)[c])
              /\ masks["apen"][c] = (RectMask(apen1)[c] \/ RectMask(apen2)[c])

\* C5: on every grid the mask mask_sector returns for anta equals, cell by
\* cell, the logical OR of the masks it returns for eais, wedd, amun, ross and
\* apen.
C5_AntaIsUnion ==
    (op = "mask_sector" /\ pc = "done" /\ raised = "" /\ sector = "anta")
        => /\ DOMAIN mask = GridCells
           /\ \A c \in GridCells :
                 mask[c] = (\E s \in {"eais", "wedd", "amun", "ross", "apen"} :
                               mask_sector(coord_names, lats, lons, s, lat, lon).mask[c])

\* C5 witness: the anta mask was computed on a grid with a cell that only apen
\* selects and a cell that no sector selects.
C5_Witness ==
    /\ op = "mask_sector" /\ pc = "done" /\ raised = "" /\ sector = "anta"
    /\ \E c \in GridCells :
          /\ mask[c]
          /\ mask_sector(coord_names, lats, lons, "apen", lat, lon).mask[c]
          /\ \A s \in {"eais", "wedd", "amun", "ross"} :
                ~mask_sector(coord_names, lats, lons, s, lat, lon).mask[c]
    /\ \E c \in GridCells : ~mask[c]

RossScenario ==
    /\ pc = "done"
    /\ raised = ""
    /\ lats = ScenarioLats
    /\ lons = ScenarioLons
    /\ \/ op = "mask_sector" /\ sector = "ross"
       \/ op = "create_mask" /\ coords = ross

\* C6 as stated: on the 4x4 grid of latitudes {-80,-77,-70,-60} and longitudes
\* {0,100,200,300} the ross mask (mask_sector, and create_mask of the ross
\* rectangle) selects exactly the cell at (lat=-80, lon=200).
C6_RossSelectsOneCell == RossScenario => Selected(mask) = {<<-80, 200>>}

\* C6 amended: on that grid the ross mask selects exactly the two cells at
\* (lat=-80, lon=200) and (lat=-77, lon=200): both latitudes are below -76.
C6_RossSelectsTwoCells == RossScenario => Selected(mask) = {<<-80, 200>>, <<-77, 200>>}

\* C6 witness: mask_sector has computed the ross mask on the scenario grid.
C6_Witness ==
    /\ RossScenario
    /\ op = "mask_sector"
    /\ DOMAIN mask = GridCells
    /\ Cardinality(GridCells) = 16

\* C7: sel_mask and create_mask produce the sector mask for a dataset whose
\* coordinates are named latitude/longitude and equally for one whose
\* coordinates are named only lat/lon, and fail with an error, returning no
\* mask, when neither naming is present.
C7_CoordinateNaming ==
    /\ (op = "create_mask" /\ pc = "done")
          => IF coord_names \in LatLonNamings
             THEN raised = "" /\ mask = RectMask(coords)
             ELSE raised # "" /\ mask = <<>>
    /\ (op = "sel_mask" /\ pc = "done" /\ sector \in MaskSectorNames)
          => IF coord_names \in LatLonNamings
             THEN /\ raised = ""
                  /\ mask = mask_sector({"latitude", "longitude"}, lats, lons, sector,
                                        "latitude", "longitude").mask
             ELSE raised # "" /\ mask = <<>>

----------------------------------------------------------------------------
(* Properties of the melt model                                             *)

\* C9: quadBasalMelt is odd around Tf: the melt at Tf + d is minus the melt at
\* Tf - d for every deviation d and every gamma (opposite signs, equal
\* magnitude), the melt at Tf is 0, and for a positive gamma the melt is
\* negative below Tf.
C9_MeltOddAroundTf ==
    (op = "quadBasalMelt" /\ pc = "done")
        => LET d == thetao - Tf
           IN  /\ bm = 0 - quadBasalMelt(gamma, Tf - d)
               /\ Abs(bm) = Abs(quadBasalMelt(gamma, Tf - d))
               /\ thetao = Tf => bm = 0
               /\ (thetao < Tf /\ gamma > 0) => bm < 0
               /\ (thetao > Tf /\ gamma > 0) => bm > 0

\* C9 witness: a melt was computed for a temperature below Tf with a positive
\* gamma and is negative.
C9_Witness ==
    /\ op = "quadBasalMelt" /\ pc = "done"
    /\ gamma > 0
    /\ thetao < Tf
    /\ thetao > 0 - MaxAbsTemp
    /\ bm < 0

\* C10: BasalMeltAnomalies(T, T) returns exactly 0 for every temperature T and
\* every gamma, and does not raise.
C10_ZeroAnomalyAtBaseline ==
    (op = "BasalMeltAnomalies" /\ pc = "done" /\ thetao = base)
        => (raised = "" /\ dBM = 0)

\* C10 witness: the anomaly of a temperature away from Tf against itself was
\* computed with a nonzero gamma.
C10_Witness ==
    /\ op = "BasalMeltAnomalies" /\ pc = "done"
    /\ thetao = base
    /\ thetao # Tf
    /\ gamma # 0
    /\ quadBasalMelt(gamma, thetao) # 0
    /\ raised = ""

----------------------------------------------------------------------------
(* C11: the anomaly is returned only strictly inside (-100, 100) *)

AnomalyDone == op = "BasalMeltAnomalies" /\ pc = "done"

MeltDifference == quadBasalMelt(gamma, thetao) - quadBasalMelt(gamma, base)

InsideLimits(d) == d < 100 * MeltUnit /\ d > (0 - 100) * MeltUnit

\* C11: a call of BasalMeltAnomalies that returns, returns the difference
\* melt(thetao) - melt(base), and that value lies strictly between -100 and
\* 100; whenever the difference is 100 or more, or -100 or less, the call
\* raises an error and returns nothing (dBM keeps its value from before the
\* call): no magnitude of 100 or more is ever returned, and none is clamped.
C11_AnomalyWithinLimits ==
    AnomalyDone =>
        /\ raised = "" => dBM = MeltDifference /\ InsideLimits(dBM)
        /\ ~InsideLimits(MeltDifference) => raised = "AssertionError" /\ dBM = 0
        /\ InsideLimits(MeltDifference) => raised = ""

\* a call whose difference is beyond the limit and that has raised
C11_Witness ==
    /\ AnomalyDone
    /\ gamma > 0
    /\ MeltDifference >= 100 * MeltUnit
    /\ raised = "AssertionError"

----------------------------------------------------------------------------
(* C16: the anomaly of the older OceanData class *)

\* C16: OceanData.quadBasalMeltAnomalies returns melt(thetao) -
\* melt(baseline) with melt(T) = (T - Tf) * |T - Tf| * ms, for every thetao,
\* negative temperatures and temperatures below Tf included.
C16_OlderAnomalyIsMeltDifference ==
    (op = "quadBasalMeltAnomalies" /\ pc = "done") =>
        dBM = quadBasalMelt(gamma, thetao) - quadBasalMelt(gamma, OceanData_baseline)

----------------------------------------------------------------------------
(* C14: the amun scenario of the depth-weighted mean *)

AmunScenario ==
    /\ op = "sector_lev_mean"
    /\ key.name = "amun"
    /\ loaded_lev_bnds = ScenarioLevelBounds

\* C14: with the levels (0,100), (100,300), (300,500), (500,800) and the band
\* of amun (top 255, bottom 355), nearest_below on the upper bounds
\* 0, 100, 300, 500 gives index 1, nearest_above on the lower bounds
\* 100, 300, 500, 800 gives index 2, and the weights of the clipped levels are
\* exactly 45 and 55.
C14_AmunScenarioWeights ==
    (AmunScenario /\ pc = "done") =>
        /\ raised = ""
        /\ top = 255 /\ bottom = 355
        /\ nearest_below(Column(loaded_lev_bnds, 1), top).value = 1
        /\ nearest_above(Column(loaded_lev_bnds, 2), bottom).value = 2
        /\ lev_ind_top = 1
        /\ lev_ind_bottom = 2
        /\ levs_weights = <<45, 55>>

\* the scenario has run to its end with a field that tells the levels apart
C14_Witness ==
    /\ AmunScenario
    /\ pc = "done"
    /\ ds = <<0, 1, 0, 1>>
    /\ levs_weighted_mean = <<45, 100>>

----------------------------------------------------------------------------
(* C17: each sector gets its own copy of the level bounds *)

\* the depth-weighted mean of sector s from the level bounds of the dataset
MeanFromLoaded(s) ==
    sector_lev_mean(ds, loaded_lev_bnds, [type |-> "str", name |-> s, num |-> 0]).mean

SeriesMeansFromLoaded ==
    op = "weighted_mean_df" =>
        \A k \in 1..Len(df) : df[k][2] = MeanFromLoaded(df[k][1])

\* C17: lev_weighted_mean clips the array it is handed in place, but
\* weighted_mean_df hands it a fresh copy for each sector: no step of the loop
\* changes the level bounds of the dataset, and after any sequence of sectors
\* every column of df is the mean computed from those unclipped bounds for
\* its sector alone, whatever was processed before it.
C17_FreshCopyPerSector ==
    /\ [][loaded_lev_bnds' = loaded_lev_bnds]_vars
    /\ []SeriesMeansFromLoaded

\* two sectors are done, and the copy of the last one was clipped
C17_Witness ==
    /\ op = "weighted_mean_df"
    /\ pc = "done"
    /\ raised = ""
    /\ Len(df) >= 2
    /\ lev_bnds # loaded_lev_bnds

----------------------------------------------------------------------------
(* C15: the table of anomalies *)

\* the anomaly of row n of column k of df against the baseline of its sector
TableAnomaly(k, n) ==
    quadBasalMelt(gamma, df[k][2][n]) - quadBasalMelt(gamma, baseline[df[k][1]])

AllAnomaliesInside ==
    \A k \in 1..Len(df) : \A n \in 1..Len(df[k][2]) : InsideLimits(TableAnomaly(k, n))

AnomalyTableReturned ==
    /\ raised = ""
    /\ Len(df2) = Len(df)
    /\ \A k \in 1..Len(df) :
           /\ df2[k][1] = df[k][1]
           /\ Len(df2[k][2]) = Len(df[k][2])
           /\ \A n \in 1..Len(df[k][2]) : df2[k][2][n] = TableAnomaly(k, n)

\* C15: for a table of N >= 1 year rows in which every anomaly lies strictly
\* between -100 and 100, thetao2basalmelt ends without an error and returns
\* a table of the same N rows and the same sector columns in the same order,
\* each entry the anomaly of its temperature against its sector's baseline.
C15_TableOfAnomalies ==
    (op = "thetao2basalmelt" /\ pc = "done" /\ AllAnomaliesInside) => AnomalyTableReturned

\* the same for tables of one row
C15_OneRowTableOfAnomalies ==
    (op = "thetao2basalmelt" /\ pc = "done" /\ AllAnomaliesInside
        /\ \A k \in 1..Len(df) : Len(df[k][2]) = 1) => AnomalyTableReturned

----------------------------------------------------------------------------
(* C12, C13: the grid map2amr writes for a row *)

PairwiseDisjoint ==
    \A c \in 1..NCells : \A a, b \in SmaskNames :
        (bisicles_masks[a][c] = 1 /\ bisicles_masks[b][c] = 1) => a = b

Unselected(c) == \A a \in SmaskNames : bisicles_masks[a][c] # 1

\* a row of five sector columns has been mapped to a grid
RowMapped == op = "map2amr" /\ row # <<>> /\ raised = "" /\ new_mask # <<>>

\* C12: with pairwise disjoint 0/1 masks smask1..smask5 (apen, amun, ross,
\* eais, wedd), for every row of the table and every cell of the grid
\* written for it: a cell selected by a sector's mask holds that sector's
\* value of the row, whatever the value (0 and 1 included), and a cell
\* selected by no mask holds the value of the base grid, which is smask1.
C12_ScatterBySector ==
    (RowMapped /\ PairwiseDisjoint) =>
        \A c \in 1..NCells :
            /\ bisicles_masks["smask1"][c] = 1 => new_mask[c] = row["apen"]
            /\ bisicles_masks["smask2"][c] = 1 => new_mask[c] = row["amun"]
            /\ bisicles_masks["smask3"][c] = 1 => new_mask[c] = row["ross"]
            /\ bisicles_masks["smask4"][c] = 1 => new_mask[c] = row["eais"]
            /\ bisicles_masks["smask5"][c] = 1 => new_mask[c] = row["wedd"]
            /\ Unselected(c) => new_mask[c] = bisicles_masks["smask1"][c]

\* the second row of a table is mapped: amun holds the value 1 and ross the
\* value 0 in it, each on a cell of its own
C12_Witness ==
    /\ RowMapped
    /\ PairwiseDisjoint
    /\ row_index = 2
    /\ row["amun"] = 1
    /\ row["ross"] = 0
    /\ bisicles_masks["smask2"][1] = 1
    /\ bisicles_masks["smask3"][2] = 1
    /\ new_mask = <<1, 0>>

\* C13: map2amr on a table of a single sector column and a single year row
\* produces a grid: every cell of that sector's mask holds the anomaly of the
\* row, every cell outside all masks holds the background value (that of the
\* base grid) unchanged.
C13_SingleSectorRoundTrip ==
    (op = "map2amr" /\ pc = "done" /\ Len(columns) = 1 /\ row_index = 1) =>
        /\ raised = ""
        /\ new_mask # <<>>
        /\ \A c \in 1..NCells :
               /\ (\E k \in 1..5 :
                       /\ <<"apen", "amun", "ross", "eais", "wedd">>[k] = columns[1]
                       /\ bisicles_masks[<<"smask1", "smask2", "smask3", "smask4", "smask5">>[k]][c] = 1)
                   => new_mask[c] = row[columns[1]]
               /\ Unselected(c) => new_mask[c] = bisicles_masks["smask1"][c]

----------------------------------------------------------------------------
(* C18: the table of the parallel file functions *)

\* the rows of tab are the (time, statistics) pairs of the files, one each
OneRowPerFile(tab) ==
    /\ Len(tab) = Len(files)
    /\ \A k \in 1..Len(files) :
           Cardinality({n \in 1..Len(tab) : tab[n] = <<files[k].time, files[k].id>>}) = 1

\* C18: AMRfiles.stats and AMRfiles.lev0means return a table with exactly one
\* row per file, the rows in non-decreasing order of the time key, each row's
\* time paired with the statistics of the same file, for every order of the
\* listing and every order in which the workers finish.
C18_SortedRowPerFile ==
    (op \in {"stats", "lev0means"} /\ pc = "done") =>
        /\ raised = ""
        /\ OneRowPerFile(table)
        /\ \A n \in 1..(Len(table) - 1) : table[n][1] <= table[n + 1][1]

====
